---- MODULE Spec2Model ----
(***************************************************************************)
(* A model of the kernel-extension analysis suite:                         *)
(*   analyze_kexts.py / host_kext/analyze_kext_only.py                      *)
(*       parse_plist_file, scan_kexts_only, create_graphml, save_files,     *)
(*       generate_statistics, main                                          *)
(*   compare_kexts.py                                                       *)
(*       analyze_kexts, compare_kext_datasets, generate_comparison_report   *)
(*   main.py                                                                *)
(*       run_script, check_data_files, main                                 *)
(*                                                                          *)
(* Python strings are sequences of one-character strings, so that          *)
(* lower(), split('.'), replace('.', '_') and the substring test `in` are  *)
(* computed and not assumed.  A Python dict is a sequence of entries with  *)
(* distinct keys, in insertion order.  A decoded plist value is a tagged   *)
(* record: dict, list, str or int.                                         *)
(***************************************************************************)
EXTENDS Integers, Sequences, FiniteSets, TLC

VARIABLES
    plist_files,     \* scan_kexts_only: the Info.plist files found by os.walk
    idx,             \* scan_kexts_only: number of files the parse loop has taken
    data,            \* scan_kexts_only: what parse_plist_file returned last
    kexts,           \* the dataset: dict bundle id -> record
    pc,              \* position of the running script
    nodes,           \* create_graphml: the <node> elements, in order
    edges,           \* create_graphml: the <edge> elements, in order
    edges_added,     \* create_graphml: the set edges_added
    gidx,            \* create_graphml: records the edge loop has taken
    vmapple,         \* compare_kext_datasets: the first dataset loaded
    host,            \* compare_kext_datasets: the second dataset loaded
    vmapple_analysis,\* compare_kext_datasets: analyze_kexts(vmapple)
    host_analysis,   \* compare_kext_datasets: analyze_kexts(host)
    bundle_cmp,      \* compare_kext_datasets: only_in_vmapple, only_in_host, common
    script,          \* the script whose main is running
    written,         \* the files the running script has written
    stats,           \* the totals and the tally the running script printed last
    args,            \* main.py: the flags given on the command line
    data_files,      \* the required dataset files that exist
    log              \* main.py: the steps main has run or skipped, in order

vars == <<plist_files, idx, data, kexts, pc, nodes, edges, edges_added, gidx,
          vmapple, host, vmapple_analysis, host_analysis, bundle_cmp,
          script, written, stats, args, data_files, log>>

extractVars == <<plist_files, idx, data, kexts, nodes, edges, edges_added, gidx>>
compareVars == <<vmapple, host, vmapple_analysis, host_analysis, bundle_cmp>>
runVars == <<script, written, stats>>
mainVars == <<args, data_files, log>>

----------------------------------------------------------------------------
(* Bounds of the model *)

\* number of Info.plist files of a scan
MaxFiles == 3
\* number of records of a dataset given to the comparison (id sets, tallies)
MaxRecs == 3
\* number of records of a dataset given to the version histogram
MaxHist == 7

----------------------------------------------------------------------------
(* Python values *)

None == [t |-> "none"]
Absent == [t |-> "absent"]

PStr(s) == [t |-> "str", chars |-> s]
PInt(n) == [t |-> "int", n |-> n]
PList(xs) == [t |-> "list", elems |-> xs]
\* a mapping literal: the entries whose value is Absent are left out
PDict(pairs) == [t |-> "dict", kv |-> SelectSeq(pairs, LAMBDA p : p[2] # Absent)]

IsDict(v) == v.t = "dict"
IsList(v) == v.t = "list"
IsStr(v) == v.t = "str"

Range(s) == {s[i] : i \in 1..Len(s)}

\* dict.keys(), in encounter order
DictKeys(v) == [i \in 1..Len(v.kv) |-> v.kv[i][1]]

\* dict.get(key, default) on a decoded mapping
PGet(v, key, default) ==
    IF \E i \in 1..Len(v.kv) : v.kv[i][1] = key
    THEN LET i == CHOOSE j \in 1..Len(v.kv) : v.kv[j][1] = key IN v.kv[i][2]
    ELSE default

\* truthiness of a decoded value
Truthy(v) ==
    CASE v.t = "str" -> v.chars # <<>>
      [] v.t = "list" -> v.elems # <<>>
      [] v.t = "dict" -> v.kv # <<>>
      [] v.t = "int" -> v.n # 0
      [] OTHER -> FALSE

\* the Python value held by a decoded value: a str is its characters
Unwrap(v) == IF v.t = "str" THEN v.chars ELSE v

----------------------------------------------------------------------------
(* str methods *)

UpperCase == <<"A","B","C","D","E","F","G","H","I","J","K","L","M",
               "N","O","P","Q","R","S","T","U","V","W","X","Y","Z">>
LowerCase == <<"a","b","c","d","e","f","g","h","i","j","k","l","m",
               "n","o","p","q","r","s","t","u","v","w","x","y","z">>

LowerChar(c) ==
    IF \E i \in 1..Len(UpperCase) : UpperCase[i] = c
    THEN LowerCase[CHOOSE i \in 1..Len(UpperCase) : UpperCase[i] = c]
    ELSE c

\* s.lower()
Lower(s) == [i \in 1..Len(s) |-> LowerChar(s[i])]

\* needle in hay
Contains(needle, hay) ==
    \E i \in 0..(Len(hay) - Len(needle)) :
        SubSeq(hay, i + 1, i + Len(needle)) = needle

\* s.replace('.', '_')
Sanitize(s) == [i \in 1..Len(s) |-> IF s[i] = "." THEN "_" ELSE s[i]]

\* s.split('.')[-1]: what follows the last '.', the whole string without one
LastSegment(s) ==
    LET dots == {i \in 1..Len(s) : s[i] = "."}
    IN  IF dots = {} THEN s
        ELSE LET last == CHOOSE i \in dots : \A j \in dots : j <= i
             IN  SubSeq(s, last + 1, Len(s))

----------------------------------------------------------------------------
(* dict, in insertion order: a sequence of [key, val] with distinct keys *)

Keys(d) == {d[i].key : i \in 1..Len(d)}
KeySeq(d) == [i \in 1..Len(d) |-> d[i].key]
Has(d, k) == \E i \in 1..Len(d) : d[i].key = k
Get(d, k) == d[CHOOSE i \in 1..Len(d) : d[i].key = k].val

\* d[k] = v: an existing key keeps its place, a new key goes last
Put(d, k, v) ==
    IF Has(d, k)
    THEN [i \in 1..Len(d) |-> IF d[i].key = k THEN [key |-> k, val |-> v] ELSE d[i]]
    ELSE Append(d, [key |-> k, val |-> v])

----------------------------------------------------------------------------
(* parse_plist_file *)

IOClassChars == <<"I","O","C","l","a","s","s">>

\* 'IOClass' in value, for one value of IOKitPersonalities: a key of a mapping,
\* an element of a list, a substring of a string; an int is not iterable
HasIOClass(value) ==
    CASE value.t = "dict" -> \E i \in 1..Len(value.kv) : value.kv[i][1] = "IOClass"
      [] value.t = "list" -> \E i \in 1..Len(value.elems) : value.elems[i] = IOClassChars
      [] value.t = "str" -> Contains(IOClassChars, value.chars)
      [] OTHER -> FALSE

\* the personalities loop raises: `in` on an int (TypeError), .get on a str or
\* a list (AttributeError), or an unhashable IOClass put into set()
PersonalitiesRaise(pers) ==
    /\ IsDict(pers)
    /\ \E i \in 1..Len(pers.kv) :
          LET value == pers.kv[i][2]
          IN  \/ value.t = "int"
              \/ value.t \in {"str", "list"} /\ HasIOClass(value)
              \/ /\ value.t = "dict"
                 /\ HasIOClass(value)
                 /\ PGet(value, "IOClass", None).t \in {"dict", "list"}

\* list(set(iokit_services)): the order of a set is not significant, the
\* field is kept as the set of the IOClass values
IOKitClasses(pers) ==
    IF IsDict(pers)
    THEN {Unwrap(PGet(pers.kv[i][2], "IOClass", None)) :
              i \in {j \in 1..Len(pers.kv) : HasIOClass(pers.kv[j][2])}}
    ELSE {}

\* mutant: list(field) for whatever can be iterated, so that a string gives
\* its characters
Coerce_IterAny(field) ==
    IF IsDict(field) THEN DictKeys(field)
    ELSE IF IsList(field) THEN field.elems
    ELSE IF IsStr(field) THEN [i \in 1..Len(field.chars) |-> <<field.chars[i]>>]
    ELSE <<>>

\* the mapping-or-sequence rule of OSBundleRequirements and OSBundleLibraries
Coerce(field) ==
    IF IsDict(field) THEN DictKeys(field)
    ELSE IF IsList(field) THEN field.elems
    ELSE <<>>

\* IOProviderClass: a list as it is, a truthy scalar as one element, else []
Provides(v) ==
    IF IsList(v) THEN v.elems
    ELSE IF Truthy(v) THEN <<Unwrap(v)>> ELSE <<>>

\* the try block raises: the file does not decode, the decoded value has no
\* .get, CFBundleIdentifier has no .split, or the personalities loop raises
ParseRaises(f) ==
    \/ ~f.decodes
    \/ ~IsDict(f.plist)
    \/ ~IsStr(PGet(f.plist, "CFBundleIdentifier", PStr(<<>>)))
    \/ PersonalitiesRaise(PGet(f.plist, "IOKitPersonalities", PDict(<<>>)))

ParseResult(f) ==
    LET d == f.plist
        ident == PGet(d, "CFBundleIdentifier", PStr(<<>>))
    IN  [path |-> f.path,
         bundle_id |-> Unwrap(ident),
         name |-> Unwrap(PGet(d, "CFBundleName", PStr(<<>>))),
         version |-> Unwrap(PGet(d, "CFBundleVersion", PStr(<<>>))),
         executable |-> Unwrap(PGet(d, "CFBundleExecutable", PStr(<<>>))),
         kext_name |-> LastSegment(ident.chars),
         source_type |-> "kext",
         dependencies |-> Coerce(PGet(d, "OSBundleRequirements", PDict(<<>>))),
         libraries |-> Coerce(PGet(d, "OSBundleLibraries", PDict(<<>>))),
         iokit_classes |-> IOKitClasses(PGet(d, "IOKitPersonalities", PDict(<<>>))),
         provides |-> Provides(PGet(d, "IOProviderClass", PList(<<>>)))]

\* mutant: the try block ends before the personalities loop, whose failure
\* leaves the record built so far
parse_plist_file_NarrowTry(f) ==
    IF \/ ~f.decodes
       \/ ~IsDict(f.plist)
       \/ ~IsStr(PGet(f.plist, "CFBundleIdentifier", PStr(<<>>)))
    THEN None
    ELSE ParseResult(f)

\* except Exception: return None
parse_plist_file(f) == IF ParseRaises(f) THEN None ELSE ParseResult(f)

----------------------------------------------------------------------------
(* scan_kexts_only *)

\* mutant: an id already in the dataset keeps its first record
ScanStore_FirstWins(ks, d) ==
    IF d # None
    THEN IF d.bundle_id # <<>> /\ ~Has(ks, d.bundle_id)
         THEN Put(ks, d.bundle_id, d) ELSE ks
    ELSE ks

\* mutant: the record is stored without the test of its bundle id
ScanStore_NoEmptyCheck(ks, d) ==
    IF d # None THEN Put(ks, d.bundle_id, d) ELSE ks

\* the body of the parse loop, given what parse_plist_file returned
ScanStore(ks, d) ==
    IF d # None
    THEN IF d.bundle_id # <<>> THEN Put(ks, d.bundle_id, d) ELSE ks
    ELSE ks

\* the whole parse loop over a list of files
RECURSIVE ScanLoop(_, _)
ScanLoop(ks, files) ==
    IF files = <<>> THEN ks
    ELSE ScanLoop(ScanStore(ks, parse_plist_file(Head(files))), Tail(files))

scan_kexts_only(files) == ScanLoop(<<>>, files)

----------------------------------------------------------------------------
(* create_graphml *)

\* rec.get(field, default) on a record of a dataset
RGet(rec, field, default) == IF field \in DOMAIN rec THEN rec[field] ELSE default

Unknown == <<"U","n","k","n","o","w","n">>
KextTag == <<"[","k","e","x","t","]">>

\* one <node>: id is the sanitized bundle id, label is name\nversion\n[kext]
NodeOf(bundle_id, kext_data) ==
    LET name == RGet(kext_data, "kext_name", RGet(kext_data, "name", Unknown))
        version == RGet(kext_data, "version", <<>>)
    IN  [id |-> Sanitize(bundle_id),
         label |-> name \o <<"\n">> \o version \o <<"\n">> \o KextTag]

\* the node loop
NodeLoop(ks) == [i \in 1..Len(ks) |-> NodeOf(ks[i].key, ks[i].val)]

\* one <edge>; from and to are the bundle ids it was made for, which the
\* output holds only in their sanitized form (source, target)
EdgeOf(bundle_id, target, label) ==
    [source |-> Sanitize(bundle_id), target |-> Sanitize(target), label |-> label,
     from |-> bundle_id, to |-> target]

\* mutant: the target is not looked up in the dataset
EdgeWanted_NoMembership(ks, added, bundle_id, target) ==
    <<bundle_id, target>> \notin added

\* mutant: edges_added is not consulted
EdgeWanted_NoDedup(ks, added, bundle_id, target) ==
    Has(ks, target)

\* the test of both inner loops before an edge is made
EdgeWanted(ks, added, bundle_id, target) ==
    Has(ks, target) /\ <<bundle_id, target>> \notin added

\* one inner loop (over dependencies, or over libraries) of one record;
\* st is [edges, added]
RECURSIVE RefLoop(_, _, _, _, _)
RefLoop(ks, st, bundle_id, targets, label) ==
    IF targets = <<>> THEN st
    ELSE LET t == Head(targets)
             next == IF EdgeWanted(ks, st.added, bundle_id, t)
                     THEN [edges |-> Append(st.edges, EdgeOf(bundle_id, t, label)),
                           added |-> st.added \cup {<<bundle_id, t>>}]
                     ELSE st
         IN  RefLoop(ks, next, bundle_id, Tail(targets), label)

\* mutant: the libraries loop runs before the dependencies loop
EdgesOfRecord_LibsFirst(ks, st, bundle_id, kext_data) ==
    LET afterLibs == RefLoop(ks, st, bundle_id,
                             RGet(kext_data, "libraries", <<>>), "uses library")
    IN  RefLoop(ks, afterLibs, bundle_id,
                RGet(kext_data, "dependencies", <<>>), "depends")

\* one pass of the outer edge loop: dependencies first, then libraries
EdgesOfRecord(ks, st, bundle_id, kext_data) ==
    LET afterDeps == RefLoop(ks, st, bundle_id,
                             RGet(kext_data, "dependencies", <<>>), "depends")
    IN  RefLoop(ks, afterDeps, bundle_id,
                RGet(kext_data, "libraries", <<>>), "uses library")

\* create_graphml of analyze_kexts.py as a whole: the node loop, then the
\* outer edge loop over kexts.items()
RECURSIVE EdgeLoop(_, _, _)
EdgeLoop(ks, st, items) ==
    IF items = <<>> THEN st
    ELSE EdgeLoop(ks, EdgesOfRecord(ks, st, Head(items).key, Head(items).val),
                  Tail(items))

create_graphml(ks) ==
    [nodes |-> NodeLoop(ks),
     edges |-> EdgeLoop(ks, [edges |-> <<>>, added |-> {}], ks).edges]

----------------------------------------------------------------------------
(* host_kext/analyze_kext_only.py: create_graphml *)

\* one <node> of the host copy
HostNodeOf(bundle_id, kext_data) ==
    LET name == RGet(kext_data, "kext_name", RGet(kext_data, "name", Unknown))
        version == RGet(kext_data, "version", <<>>)
    IN  [id |-> Sanitize(bundle_id),
         label |-> name \o <<"\n">> \o version \o <<"\n">> \o KextTag]

HostNodeLoop(ks) == [i \in 1..Len(ks) |-> HostNodeOf(ks[i].key, ks[i].val)]

\* one <edge> of the host copy
HostEdgeOf(bundle_id, target, label) ==
    [source |-> Sanitize(bundle_id), target |-> Sanitize(target), label |-> label,
     from |-> bundle_id, to |-> target]

\* mutant: the host copy keeps one edge per unordered pair of ids
HostEdgeWanted_Unordered(ks, added, bundle_id, target) ==
    /\ Has(ks, target)
    /\ <<bundle_id, target>> \notin added
    /\ <<target, bundle_id>> \notin added

\* the test of both inner loops of the host copy
HostEdgeWanted(ks, added, bundle_id, target) ==
    Has(ks, target) /\ <<bundle_id, target>> \notin added

RECURSIVE HostRefLoop(_, _, _, _, _)
HostRefLoop(ks, st, bundle_id, targets, label) ==
    IF targets = <<>> THEN st
    ELSE LET t == Head(targets)
             next == IF HostEdgeWanted(ks, st.added, bundle_id, t)
                     THEN [edges |-> Append(st.edges, HostEdgeOf(bundle_id, t, label)),
                           added |-> st.added \cup {<<bundle_id, t>>}]
                     ELSE st
         IN  HostRefLoop(ks, next, bundle_id, Tail(targets), label)

\* one pass of the outer edge loop of the host copy
HostEdgesOfRecord(ks, st, bundle_id, kext_data) ==
    LET afterDeps == HostRefLoop(ks, st, bundle_id,
                                 RGet(kext_data, "dependencies", <<>>), "depends")
    IN  HostRefLoop(ks, afterDeps, bundle_id,
                    RGet(kext_data, "libraries", <<>>), "uses library")

RECURSIVE HostEdgeLoop(_, _, _)
HostEdgeLoop(ks, st, items) ==
    IF items = <<>> THEN st
    ELSE HostEdgeLoop(ks, HostEdgesOfRecord(ks, st, Head(items).key, Head(items).val),
                      Tail(items))

\* create_graphml of host_kext/analyze_kext_only.py as a whole
host_create_graphml(ks) ==
    [nodes |-> HostNodeLoop(ks),
     edges |-> HostEdgeLoop(ks, [edges |-> <<>>, added |-> {}], ks).edges]

----------------------------------------------------------------------------
(* analyze_kexts.py: generate_statistics *)

Inc(categories, c) == [categories EXCEPT ![c] = @ + 1]

\* the dict literal categories of generate_statistics
StatsCategories ==
    [graphics |-> 0, audio |-> 0, usb |-> 0, bluetooth |-> 0,
     apple_specific |-> 0, intel |-> 0, amd |-> 0, other |-> 0]

\* the if/elif chain of generate_statistics over one record
StatsTally(categories, bundle_id, kext) ==
    LET name == Lower(RGet(kext, "name", <<>>))
        bundle_lower == Lower(bundle_id)
    IN  IF \/ Contains(<<"g", "r", "a", "p", "h", "i", "c", "s">>, name)
           \/ Contains(<<"m", "e", "t", "a", "l">>, name)
           \/ Contains(<<"g", "p", "u">>, name)
           \/ Contains(<<"f", "r", "a", "m", "e", "b", "u", "f", "f", "e", "r">>, name)
        THEN Inc(categories, "graphics")
        ELSE IF \/ Contains(<<"a", "u", "d", "i", "o">>, name)
                \/ Contains(<<"h", "d", "a">>, bundle_lower)
        THEN Inc(categories, "audio")
        ELSE IF Contains(<<"u", "s", "b">>, name) \/ Contains(<<"u", "s", "b">>, bundle_lower)
        THEN Inc(categories, "usb")
        ELSE IF \/ Contains(<<"b", "l", "u", "e", "t", "o", "o", "t", "h">>, name)
                \/ Contains(<<"b", "t">>, bundle_lower)
        THEN Inc(categories, "bluetooth")
        ELSE IF Contains(<<"a", "p", "p", "l", "e">>, bundle_lower)
        THEN Inc(categories, "apple_specific")
        ELSE IF \/ Contains(<<"i", "n", "t", "e", "l">>, name)
                \/ Contains(<<"i", "n", "t", "e", "l">>, bundle_lower)
        THEN Inc(categories, "intel")
        ELSE IF Contains(<<"a", "m", "d">>, name)
        THEN Inc(categories, "amd")
        ELSE Inc(categories, "other")

\* the category loop of generate_statistics
RECURSIVE StatsLoop(_, _)
StatsLoop(categories, items) ==
    IF items = <<>> THEN categories
    ELSE StatsLoop(StatsTally(categories, Head(items).key, Head(items).val), Tail(items))

\* sum(len(k.get(field, [])) for k in kexts.values())
RECURSIVE StatsSum(_, _)
StatsSum(items, field) ==
    IF items = <<>> THEN 0
    ELSE Len(RGet(Head(items).val, field, <<>>)) + StatsSum(Tail(items), field)

\* what generate_statistics prints
generate_statistics(ks) ==
    [total |-> Len(ks),
     total_deps |-> StatsSum(ks, "dependencies"),
     total_libs |-> StatsSum(ks, "libraries"),
     categories |-> StatsLoop(StatsCategories, ks)]

\* what main of host_kext/analyze_kext_only.py prints after saving
HostTotals(ks) ==
    [total |-> Len(ks),
     total_deps |-> StatsSum(ks, "dependencies"),
     total_libs |-> StatsSum(ks, "libraries")]

----------------------------------------------------------------------------
(* The Info.plist files of a scan *)

IdA == <<"a", ".", "b">>
IdB == <<"a", "_", "b">>
\* an id no scanned bundle has
IdX == <<"x", ".", "y">>

BundleIds == {IdA, IdB}
OtherId(id) == IF id = IdA THEN IdB ELSE IdA

Plist(ident, req, lib, pers) ==
    PDict(<< <<"CFBundleIdentifier", ident>>,
             <<"CFBundleName", PStr(<<"K">>)>>,
             <<"CFBundleVersion", PStr(<<"1">>)>>,
             <<"OSBundleRequirements", req>>,
             <<"OSBundleLibraries", lib>>,
             <<"IOKitPersonalities", pers>> >>)

GoodPers == PDict(<< <<"p", PDict(<< <<"IOClass", PStr(<<"C">>)>> >>)>> >>)
BadPers == PDict(<< <<"p", PInt(1)>> >>)

\* the requirement and library fields of the bundles: as a mapping, as a
\* list, absent and of another shape; naming the other bundle, the bundle
\* itself, a bundle that is not there, the same bundle twice
RefShapes(i) ==
    LET o == OtherId(i)
        ver == PStr(<<"1">>)
    IN  { <<Absent, PList(<<i, o>>)>>,
          <<PDict(<< <<o, ver>> >>), Absent>>,
          <<PList(<<o, o>>), PDict(<< <<o, ver>> >>)>>,
          <<PDict(<< <<IdX, ver>>, <<o, ver>> >>), PList(<<IdX, o>>)>>,
          <<PStr(o), PInt(7)>> }

\* what an Info.plist may hold: bundles that normalize, a bundle without
\* identifier, and three that raise (undecodable, a non-string identifier,
\* a personality that is no mapping)
FileContents ==
    {[decodes |-> TRUE, plist |-> Plist(PStr(i), rl[1], rl[2], GoodPers)] :
         <<i, rl>> \in {<<i, rl>> \in BundleIds \X UNION {RefShapes(j) : j \in BundleIds} :
                           rl \in RefShapes(i)}}
    \cup {[decodes |-> TRUE, plist |-> Plist(Absent, Absent, Absent, Absent)],
          [decodes |-> FALSE, plist |-> PDict(<<>>)],
          [decodes |-> TRUE, plist |-> Plist(PInt(5), Absent, Absent, Absent)],
          [decodes |-> TRUE, plist |-> Plist(PStr(IdA), Absent, Absent, BadPers)]}

\* the list os.walk yields for the contents c: the i-th file has the path i
FileList(c) ==
    [i \in DOMAIN c |-> [path |-> i, decodes |-> c[i].decodes, plist |-> c[i].plist]]

----------------------------------------------------------------------------
(* analyze_kexts.py: main *)

NoAnalysis == None
NoCmp == None

\* the entry points of the extraction
Scripts == {"analyze_kexts", "host_kext"}

\* the files save_files of analyze_kexts.py writes into the directory '.'
SavedFiles == {"./kexts_data.json", "./kexts_graph.graphml"}
\* the files save_files of host_kext/analyze_kext_only.py writes
HostSavedFiles == {"kext_only/kexts_data.json", "kext_only/kexts_graph.graphml"}

InitExtract ==
    /\ \E n \in 0..MaxFiles : \E c \in [1..n -> FileContents] : plist_files = FileList(c)
    /\ script \in Scripts
    /\ idx = 0
    /\ data = None
    /\ kexts = <<>>
    /\ pc = "scan"
    /\ nodes = <<>>
    /\ edges = <<>>
    /\ edges_added = {}
    /\ gidx = 0
    /\ written = {}
    /\ stats = None
    /\ args = {}
    /\ data_files = {}
    /\ log = <<>>
    /\ vmapple = <<>>
    /\ host = <<>>
    /\ vmapple_analysis = NoAnalysis
    /\ host_analysis = NoAnalysis
    /\ bundle_cmp = NoCmp

\* scan_kexts_only: one pass of the parse loop
ScanStep ==
    /\ pc = "scan"
    /\ idx < Len(plist_files)
    /\ data' = parse_plist_file(plist_files[idx + 1])
    /\ kexts' = ScanStore(kexts, data')
    /\ idx' = idx + 1
    /\ UNCHANGED <<plist_files, pc, nodes, edges, edges_added, gidx>>
    /\ UNCHANGED runVars
    /\ UNCHANGED compareVars
    /\ UNCHANGED mainVars

\* scan_kexts_only returns kexts to main
ScanReturn ==
    /\ pc = "scan"
    /\ idx = Len(plist_files)
    /\ pc' = "main"
    /\ UNCHANGED extractVars
    /\ UNCHANGED runVars
    /\ UNCHANGED compareVars
    /\ UNCHANGED mainVars

\* main of analyze_kexts.py: if not kexts: return
MainNoKexts ==
    /\ script = "analyze_kexts"
    /\ pc = "main"
    /\ kexts = <<>>
    /\ pc' = "exit"
    /\ UNCHANGED extractVars
    /\ UNCHANGED runVars
    /\ UNCHANGED compareVars
    /\ UNCHANGED mainVars

\* main of analyze_kexts.py calls create_graphml: the node loop
AddNodes ==
    /\ script = "analyze_kexts"
    /\ pc = "main"
    /\ kexts # <<>>
    /\ nodes' = NodeLoop(kexts)
    /\ edges' = <<>>
    /\ edges_added' = {}
    /\ gidx' = 0
    /\ pc' = "edges"
    /\ UNCHANGED <<plist_files, idx, data, kexts>>
    /\ UNCHANGED runVars
    /\ UNCHANGED compareVars
    /\ UNCHANGED mainVars

\* create_graphml: one pass of the outer edge loop
AddEdges ==
    /\ script = "analyze_kexts"
    /\ pc = "edges"
    /\ gidx < Len(kexts)
    /\ LET e == kexts[gidx + 1]
           st == EdgesOfRecord(kexts, [edges |-> edges, added |-> edges_added],
                               e.key, e.val)
       IN  /\ edges' = st.edges
           /\ edges_added' = st.added
    /\ gidx' = gidx + 1
    /\ UNCHANGED <<plist_files, idx, data, kexts, pc, nodes>>
    /\ UNCHANGED runVars
    /\ UNCHANGED compareVars
    /\ UNCHANGED mainVars

\* main of host_kext/analyze_kext_only.py calls create_graphml with whatever
\* the scan returned: the node loop of the host copy
HostAddNodes ==
    /\ script = "host_kext"
    /\ pc = "main"
    /\ nodes' = HostNodeLoop(kexts)
    /\ edges' = <<>>
    /\ edges_added' = {}
    /\ gidx' = 0
    /\ pc' = "edges"
    /\ UNCHANGED <<plist_files, idx, data, kexts>>
    /\ UNCHANGED runVars
    /\ UNCHANGED compareVars
    /\ UNCHANGED mainVars

\* the host copy of create_graphml: one pass of the outer edge loop
HostAddEdges ==
    /\ script = "host_kext"
    /\ pc = "edges"
    /\ gidx < Len(kexts)
    /\ LET e == kexts[gidx + 1]
           st == HostEdgesOfRecord(kexts, [edges |-> edges, added |-> edges_added],
                                   e.key, e.val)
       IN  /\ edges' = st.edges
           /\ edges_added' = st.added
    /\ gidx' = gidx + 1
    /\ UNCHANGED <<plist_files, idx, data, kexts, pc, nodes>>
    /\ UNCHANGED runVars
    /\ UNCHANGED compareVars
    /\ UNCHANGED mainVars

\* create_graphml returns the tree
GraphReturn ==
    /\ pc = "edges"
    /\ gidx = Len(kexts)
    /\ pc' = "graph"
    /\ UNCHANGED extractVars
    /\ UNCHANGED runVars
    /\ UNCHANGED compareVars
    /\ UNCHANGED mainVars

\* main of analyze_kexts.py calls save_files(kexts, graphml_root, '.'), which
\* makes the directory if it is not there and writes the two files
SaveFiles ==
    /\ script = "analyze_kexts"
    /\ pc = "graph"
    /\ written' = written \cup SavedFiles
    /\ pc' = "saved"
    /\ UNCHANGED <<script, stats>>
    /\ UNCHANGED extractVars
    /\ UNCHANGED compareVars
    /\ UNCHANGED mainVars

\* main of host_kext/analyze_kext_only.py calls save_files, which opens the
\* two files under kext_only/ for writing: when the directory is not there
\* the first open raises FileNotFoundError and the script ends with it
HostSaveFiles ==
    /\ script = "host_kext"
    /\ pc = "graph"
    /\ \E dir_exists \in BOOLEAN :
          IF dir_exists
          THEN written' = written \cup HostSavedFiles /\ pc' = "saved"
          ELSE written' = written /\ pc' = "raised"
    /\ UNCHANGED <<script, stats>>
    /\ UNCHANGED extractVars
    /\ UNCHANGED compareVars
    /\ UNCHANGED mainVars

\* main of analyze_kexts.py calls generate_statistics and returns
Statistics ==
    /\ script = "analyze_kexts"
    /\ pc = "saved"
    /\ stats' = generate_statistics(kexts)
    /\ pc' = "exit"
    /\ UNCHANGED <<script, written>>
    /\ UNCHANGED extractVars
    /\ UNCHANGED compareVars
    /\ UNCHANGED mainVars

\* main of host_kext/analyze_kext_only.py prints its totals and returns
HostStatistics ==
    /\ script = "host_kext"
    /\ pc = "saved"
    /\ stats' = HostTotals(kexts)
    /\ pc' = "exit"
    /\ UNCHANGED <<script, written>>
    /\ UNCHANGED extractVars
    /\ UNCHANGED compareVars
    /\ UNCHANGED mainVars

Next ==
    \/ ScanStep
    \/ ScanReturn
    \/ MainNoKexts
    \/ AddNodes
    \/ AddEdges
    \/ HostAddNodes
    \/ HostAddEdges
    \/ GraphReturn
    \/ SaveFiles
    \/ HostSaveFiles
    \/ Statistics
    \/ HostStatistics

Spec == InitExtract /\ [][Next]_vars

----------------------------------------------------------------------------
(* Properties of the scan and of the graph *)

ScanDone == pc # "scan"
GraphDone == pc = "graph"

\* the files the parse loop has taken so far
Taken == 1..idx

\* the requirement and the library field of a file, Absent when missing
ReqField(f) == PGet(f.plist, "OSBundleRequirements", Absent)
LibField(f) == PGet(f.plist, "OSBundleLibraries", Absent)

\* a record of the dataset names the id t in one of its two lists
Names(rec, t) == t \in Range(rec.dependencies) \cup Range(rec.libraries)

\* C1: every edge of the graph has its source and its target among the keys
\* of the dataset, as bundle ids and as the sanitized ids written out; an
\* entry naming an id outside the dataset makes no edge.
C1_EdgesInsideDataset ==
    \A i \in 1..Len(edges) :
        /\ edges[i].from \in Keys(kexts)
        /\ edges[i].to \in Keys(kexts)
        /\ edges[i].source \in {nodes[n].id : n \in 1..Len(nodes)}
        /\ edges[i].target \in {nodes[n].id : n \in 1..Len(nodes)}

\* a finished graph with edges, built from a dataset in which a record names
\* an id that is no key of the dataset
C1_Witness ==
    /\ GraphDone
    /\ edges # <<>>
    /\ \E i \in 1..Len(kexts) : Names(kexts[i].val, IdX)
    /\ ~Has(kexts, IdX)

Parsed == [i \in Taken |-> parse_plist_file(plist_files[i])]

\* the files, among those of parsed, that normalize to a record with the id
WithId(parsed, id) ==
    {i \in DOMAIN parsed : parsed[i] # None /\ parsed[i].bundle_id = id}

\* the bundle ids, empty or not, of the records of parsed
IdsOf(parsed) ==
    {parsed[i].bundle_id : i \in {j \in DOMAIN parsed : parsed[j] # None}}

Last(S) == CHOOSE i \in S : \A j \in S : j <= i

\* C6: while and after the scan, the dataset holds exactly one entry for
\* every non-empty bundle id among the records normalized so far, equal to the
\* record of the last file with that id, and nothing else.
C6_LastWriteWins ==
    LET parsed == Parsed
        ids == IdsOf(parsed) \ {<<>>}
    IN  /\ \A id \in ids :
              /\ Cardinality({i \in 1..Len(kexts) : kexts[i].key = id}) = 1
              /\ Get(kexts, id) = parsed[Last(WithId(parsed, id))]
        /\ Len(kexts) = Cardinality(ids)

\* the scan is over and two of its files normalized to the same bundle id
C6_Witness ==
    /\ ScanDone
    /\ \E id \in Keys(kexts) : Cardinality(WithId(Parsed, id)) >= 2
    /\ Len(kexts) >= 2

\* an item fails: its file does not decode, or the decoded mapping has an
\* identifier that is no string or a personality that is no mapping
ItemFails(f) ==
    \/ ~f.decodes
    \/ PGet(f.plist, "CFBundleIdentifier", PStr(<<>>)).t # "str"
    \/ PGet(f.plist, "IOKitPersonalities", Absent) = BadPers

\* C7: when the scan is over, no record of the dataset comes from a failing
\* item, and the dataset is the one a scan of the same files without the
\* failing ones yields; a failing item does not end the parse loop early.
C7_FailureIsolation ==
    /\ ScanDone =>
          /\ idx = Len(plist_files)
          /\ kexts = scan_kexts_only(SelectSeq(plist_files, LAMBDA f : ~ItemFails(f)))
    /\ \A i \in 1..Len(kexts) :
          \E j \in Taken : /\ plist_files[j].path = kexts[i].val.path
                           /\ ~ItemFails(plist_files[j])

\* the scan is over, an item failed between two that were stored
C7_Witness ==
    /\ ScanDone
    /\ Len(kexts) = 2
    /\ \E j \in 2..(Len(plist_files) - 1) :
          /\ ItemFails(plist_files[j])
          /\ \E i \in 1..Len(kexts) : kexts[i].val.path < j
          /\ \E i \in 1..Len(kexts) : kexts[i].val.path > j

\* C8: every key of the dataset is a non-empty string and is the bundle_id
\* of the record stored under it.
C8_KeysAreBundleIds ==
    \A i \in 1..Len(kexts) :
        /\ kexts[i].key # <<>>
        /\ Len(kexts[i].key) > 0
        /\ kexts[i].key = kexts[i].val.bundle_id

\* the scan is over, it stored records and one file normalized to a record
\* with an empty bundle id
C8_Witness ==
    /\ ScanDone
    /\ kexts # <<>>
    /\ <<>> \in IdsOf(Parsed)

\* what the mapping-or-sequence rule makes of a field
Coerced(field, out) ==
    CASE field.t = "dict" ->
            /\ Len(out) = Len(field.kv)
            /\ \A i \in 1..Len(out) : out[i] = field.kv[i][1]
      [] field.t = "list" -> out = field.elems
      [] OTHER -> out = <<>>

\* C9: the record of the file parsed last has, for dependencies and for
\* libraries, the keys of a mapping in their order, a list as it is, and the
\* empty list for a missing field or one of another shape; the shape of the
\* two fields never makes the file fail.
C9_DualShape ==
    idx > 0 =>
        LET f == plist_files[idx]
        IN  /\ ~ItemFails(f) => data # None
            /\ data # None =>
                  /\ Coerced(ReqField(f), data.dependencies)
                  /\ Coerced(LibField(f), data.libraries)

\* a file whose requirements are a mapping and whose libraries are a list of
\* the same two ids was parsed: both fields hold the same sequence
C9_Witness ==
    /\ idx > 0
    /\ data # None
    /\ ReqField(plist_files[idx]).t = "dict"
    /\ LibField(plist_files[idx]).t = "list"
    /\ Len(data.dependencies) = 2
    /\ data.dependencies = data.libraries

\* a file whose two fields are a string and a number was parsed
C9_WitnessOtherShape ==
    /\ idx > 0
    /\ data # None
    /\ ReqField(plist_files[idx]).t = "str"
    /\ LibField(plist_files[idx]).t = "int"
    /\ data.dependencies = <<>> /\ data.libraries = <<>>

\* the edges made for the reference of the record s to the id t
EdgesFromTo(s, t) == {i \in 1..Len(edges) : edges[i].from = s /\ edges[i].to = t}

\* the place of a key in the dataset
PlaceOf(k) == CHOOSE i \in 1..Len(kexts) : kexts[i].key = k

\* C14: in the finished graph, for every record S and every key T of the
\* dataset there is exactly one edge S->T when S names T in its dependencies
\* or its libraries and none otherwise; it is labelled depends when T is among
\* the dependencies of S and uses library when T is among its libraries only.
C14_OneEdgePerReference ==
    GraphDone =>
        \A s, t \in Keys(kexts) :
            LET rec == Get(kexts, s)
                made == EdgesFromTo(s, t)
            IN  /\ Cardinality(made) = IF Names(rec, t) THEN 1 ELSE 0
                /\ \A i \in made :
                      edges[i].label = IF t \in Range(rec.dependencies)
                                       THEN "depends" ELSE "uses library"

\* a finished graph in which a record names a record stored after it twice
\* among its dependencies and once among its libraries (one edge, depends),
\* and in which another edge is labelled uses library
C14_Witness ==
    /\ GraphDone
    /\ \E s, t \in Keys(kexts) :
          LET rec == Get(kexts, s)
          IN  /\ PlaceOf(s) < PlaceOf(t)
              /\ t \in Range(rec.libraries)
              /\ Cardinality({m \in 1..Len(rec.dependencies) : rec.dependencies[m] = t}) = 2
              /\ \E i \in EdgesFromTo(s, t) : edges[i].label = "depends"
    /\ \E i \in 1..Len(edges) : edges[i].label = "uses library"

\* the records a node id stands for
RecordsOfNodeId(id) == {i \in 1..Len(kexts) : Sanitize(kexts[i].key) = id}

\* C17: two bundle ids of the dataset never get the same node id, so that the
\* graph has one distinctly identified node per record and the source and the
\* target of every edge stand for exactly one record.
C17_DistinctNodeIds ==
    GraphDone =>
        /\ \A i, j \in 1..Len(nodes) : i # j => nodes[i].id # nodes[j].id
        /\ Cardinality({nodes[i].id : i \in 1..Len(nodes)}) = Len(kexts)
        /\ \A i \in 1..Len(edges) :
              /\ Cardinality(RecordsOfNodeId(edges[i].source)) = 1
              /\ Cardinality(RecordsOfNodeId(edges[i].target)) = 1

----------------------------------------------------------------------------
(* compare_kexts.py: analyze_kexts *)

CategoryNames ==
    <<"graphics", "audio", "usb", "bluetooth", "apple_specific", "intel", "amd", "other">>

\* the dict literal categories
ZeroCategories == [c \in Range(CategoryNames) |-> 0]

\* mutant: the usb test opens a chain of its own (`if` for `elif`)
Tally_SplitChain(categories, bundle_id, kext) ==
    LET name == Lower(RGet(kext, "name", <<>>))
        bundle_lower == Lower(bundle_id)
        first ==
            IF \/ Contains(<<"g", "r", "a", "p", "h", "i", "c", "s">>, name)
               \/ Contains(<<"m", "e", "t", "a", "l">>, name)
               \/ Contains(<<"g", "p", "u">>, name)
               \/ Contains(<<"f", "r", "a", "m", "e", "b", "u", "f", "f", "e", "r">>, name)
            THEN Inc(categories, "graphics")
            ELSE IF \/ Contains(<<"a", "u", "d", "i", "o">>, name)
                    \/ Contains(<<"h", "d", "a">>, bundle_lower)
            THEN Inc(categories, "audio")
            ELSE categories
    IN  IF Contains(<<"u", "s", "b">>, name) \/ Contains(<<"u", "s", "b">>, bundle_lower)
        THEN Inc(first, "usb")
        ELSE IF \/ Contains(<<"b", "l", "u", "e", "t", "o", "o", "t", "h">>, name)
                \/ Contains(<<"b", "t">>, bundle_lower)
        THEN Inc(first, "bluetooth")
        ELSE IF Contains(<<"a", "p", "p", "l", "e">>, bundle_lower)
        THEN Inc(first, "apple_specific")
        ELSE IF \/ Contains(<<"i", "n", "t", "e", "l">>, name)
                \/ Contains(<<"i", "n", "t", "e", "l">>, bundle_lower)
        THEN Inc(first, "intel")
        ELSE IF Contains(<<"a", "m", "d">>, name)
        THEN Inc(first, "amd")
        ELSE Inc(first, "other")

\* mutant: the apple test is made before the usb test
Tally_AppleFirst(categories, bundle_id, kext) ==
    LET name == Lower(RGet(kext, "name", <<>>))
        bundle_lower == Lower(bundle_id)
    IN  IF \/ Contains(<<"g", "r", "a", "p", "h", "i", "c", "s">>, name)
           \/ Contains(<<"m", "e", "t", "a", "l">>, name)
           \/ Contains(<<"g", "p", "u">>, name)
           \/ Contains(<<"f", "r", "a", "m", "e", "b", "u", "f", "f", "e", "r">>, name)
        THEN Inc(categories, "graphics")
        ELSE IF \/ Contains(<<"a", "u", "d", "i", "o">>, name)
                \/ Contains(<<"h", "d", "a">>, bundle_lower)
        THEN Inc(categories, "audio")
        ELSE IF Contains(<<"a", "p", "p", "l", "e">>, bundle_lower)
        THEN Inc(categories, "apple_specific")
        ELSE IF Contains(<<"u", "s", "b">>, name) \/ Contains(<<"u", "s", "b">>, bundle_lower)
        THEN Inc(categories, "usb")
        ELSE IF \/ Contains(<<"b", "l", "u", "e", "t", "o", "o", "t", "h">>, name)
                \/ Contains(<<"b", "t">>, bundle_lower)
        THEN Inc(categories, "bluetooth")
        ELSE IF \/ Contains(<<"i", "n", "t", "e", "l">>, name)
                \/ Contains(<<"i", "n", "t", "e", "l">>, bundle_lower)
        THEN Inc(categories, "intel")
        ELSE IF Contains(<<"a", "m", "d">>, name)
        THEN Inc(categories, "amd")
        ELSE Inc(categories, "other")

\* the body of the category loop: the if/elif chain over one record
Tally(categories, bundle_id, kext) ==
    LET name == Lower(RGet(kext, "name", <<>>))
        bundle_lower == Lower(bundle_id)
    IN  IF \/ Contains(<<"g", "r", "a", "p", "h", "i", "c", "s">>, name)
           \/ Contains(<<"m", "e", "t", "a", "l">>, name)
           \/ Contains(<<"g", "p", "u">>, name)
           \/ Contains(<<"f", "r", "a", "m", "e", "b", "u", "f", "f", "e", "r">>, name)
        THEN Inc(categories, "graphics")
        ELSE IF \/ Contains(<<"a", "u", "d", "i", "o">>, name)
                \/ Contains(<<"h", "d", "a">>, bundle_lower)
        THEN Inc(categories, "audio")
        ELSE IF Contains(<<"u", "s", "b">>, name) \/ Contains(<<"u", "s", "b">>, bundle_lower)
        THEN Inc(categories, "usb")
        ELSE IF \/ Contains(<<"b", "l", "u", "e", "t", "o", "o", "t", "h">>, name)
                \/ Contains(<<"b", "t">>, bundle_lower)
        THEN Inc(categories, "bluetooth")
        ELSE IF Contains(<<"a", "p", "p", "l", "e">>, bundle_lower)
        THEN Inc(categories, "apple_specific")
        ELSE IF \/ Contains(<<"i", "n", "t", "e", "l">>, name)
                \/ Contains(<<"i", "n", "t", "e", "l">>, bundle_lower)
        THEN Inc(categories, "intel")
        ELSE IF Contains(<<"a", "m", "d">>, name)
        THEN Inc(categories, "amd")
        ELSE Inc(categories, "other")

\* the category loop over data.items()
RECURSIVE CategoryLoop(_, _)
CategoryLoop(categories, items) ==
    IF items = <<>> THEN categories
    ELSE CategoryLoop(Tally(categories, Head(items).key, Head(items).val), Tail(items))

\* sum(len(kext.get(field, [])) for kext in data.values())
RECURSIVE SumLen(_, _)
SumLen(items, field) ==
    IF items = <<>> THEN 0
    ELSE Len(RGet(Head(items).val, field, <<>>)) + SumLen(Tail(items), field)

NA == <<"N", "/", "A">>

\* the versions loop: versions[version] = versions.get(version, 0) + 1
RECURSIVE VersionLoop(_, _)
VersionLoop(versions, items) ==
    IF items = <<>> THEN versions
    ELSE LET version == RGet(Head(items).val, "version", NA)
             count == IF Has(versions, version) THEN Get(versions, version) ELSE 0
         IN  VersionLoop(Put(versions, version, count + 1), Tail(items))

\* the number of entries reported
TopN == 5

\* insert x into a list sorted by falling count, behind the entries whose
\* count is not smaller
InsertDesc(sorted, x) ==
    LET before == {i \in 1..Len(sorted) : sorted[i].val >= x.val}
    IN  SubSeq(sorted, 1, Cardinality(before)) \o <<x>>
            \o SubSeq(sorted, Cardinality(before) + 1, Len(sorted))

\* insert x into a list sorted by rising count, behind the entries whose
\* count is not larger
InsertAsc(sorted, x) ==
    LET before == {i \in 1..Len(sorted) : sorted[i].val <= x.val}
    IN  SubSeq(sorted, 1, Cardinality(before)) \o <<x>>
            \o SubSeq(sorted, Cardinality(before) + 1, Len(sorted))

RECURSIVE SortAsc(_, _)
SortAsc(sorted, items) ==
    IF items = <<>> THEN sorted ELSE SortAsc(InsertAsc(sorted, Head(items)), Tail(items))

RECURSIVE SortDesc(_, _)
SortDesc(sorted, items) ==
    IF items = <<>> THEN sorted ELSE SortDesc(InsertDesc(sorted, Head(items)), Tail(items))

Reverse(s) == [i \in 1..Len(s) |-> s[Len(s) + 1 - i]]

\* mutant: the rising sort, turned round, which turns the equal counts round too
SortedByCount_Reversed(items) == Reverse(SortAsc(<<>>, items))

\* sorted(items, key=lambda x: x[1], reverse=True): by falling count, the
\* entries of equal count in the order they have in items
SortedByCount(items) == SortDesc(<<>>, items)

\* sorted(versions.items(), ...)[:5]
TopVersions(versions) ==
    LET s == SortedByCount(versions)
    IN  SubSeq(s, 1, IF Len(s) < TopN THEN Len(s) ELSE TopN)

analyze_kexts(d) ==
    LET versions == VersionLoop(<<>>, d)
    IN  [total |-> Len(d),
         categories |-> CategoryLoop(ZeroCategories, d),
         total_libraries |-> SumLen(d, "libraries"),
         total_dependencies |-> SumLen(d, "dependencies"),
         unique_versions |-> Len(versions),
         top_versions |-> TopVersions(versions)]

\* mutant: only_in_host is taken without the subtraction
BundleSets_NoSubtract(vm, hs) ==
    [only_in_vmapple |-> Keys(vm) \ Keys(hs),
     only_in_host |-> Keys(hs),
     common |-> Keys(vm) \cap Keys(hs)]

\* compare_kext_datasets: the three sets of bundle ids
BundleSets(vm, hs) ==
    [only_in_vmapple |-> Keys(vm) \ Keys(hs),
     only_in_host |-> Keys(hs) \ Keys(vm),
     common |-> Keys(vm) \cap Keys(hs)]

----------------------------------------------------------------------------
(* The datasets given to the comparison *)

NameParts ==
    { <<"G", "r", "a", "p", "h", "i", "c", "s">>,
      <<"M", "e", "t", "a", "l">>,
      <<"G", "P", "U">>,
      <<"F", "r", "a", "m", "e", "B", "u", "f", "f", "e", "r">>,
      <<"A", "u", "d", "i", "o">>,
      <<"U", "S", "B", " ">>,
      <<"B", "l", "u", "e", "t", "o", "o", "t", "h">>,
      <<"I", "n", "t", "e", "l", " ">>,
      <<"A", "M", "D">>,
      <<"D", "i", "s", "k">> }

IdParts ==
    { <<"c", "o", "m", ".">>,
      <<"A", "p", "p", "l", "e">>,
      <<"H", "D", "A">>,
      <<"u", "s", "b">>,
      <<"B", "T">>,
      <<"i", "n", "t", "e", "l">>,
      <<"d", "r", "v">>,
      <<"u", "s">>,
      <<"b", ".">> }

\* a name: empty, one part, or two parts in a row
NameStrings == {<<>>} \cup NameParts \cup {a \o b : a, b \in NameParts}
\* a bundle id: one part, or two parts in a row
IdStrings == IdParts \cup {a \o b : a, b \in IdParts}

\* datasets of one record, with or without a name
OneRecordDatasets ==
    {<<[key |-> id, val |-> [name |-> n, version |-> <<"1">>]]>> :
         id \in IdStrings, n \in NameStrings}
    \cup {<<[key |-> id, val |-> [version |-> <<"1">>]]>> : id \in IdStrings}

\* four bundles with their records
PoolRecord(id) ==
    CASE id = <<"c", "o", "m", ".", "a", "p", "p", "l", "e", ".", "u", "s", "b">> ->
            [name |-> <<"I", "n", "t", "e", "l", " ", "U", "S", "B", " ", "C", "o", "n", "t", "r", "o", "l", "l", "e", "r">>, version |-> <<"1">>,
             libraries |-> <<<<"c", "o", "m", ".", "x", ".", "H", "D", "A">>>>, dependencies |-> <<>>]
      [] id = <<"c", "o", "m", ".", "x", ".", "H", "D", "A">> ->
            [name |-> <<"U", "S", "B", " ", "A", "u", "d", "i", "o">>, version |-> <<"2">>,
             libraries |-> <<>>, dependencies |-> <<<<"s", "u", "b", "t", "l", "e">>, <<"g", "o", "n", "e">>>>]
      [] id = <<"s", "u", "b", "t", "l", "e">> ->
            [version |-> <<"1">>, libraries |-> <<>>]
      [] OTHER ->
            [name |-> <<"A", "M", "D", " ", "G", "r", "a", "p", "h", "i", "c", "s">>, version |-> <<"2">>]

PoolIds ==
    { <<"c", "o", "m", ".", "a", "p", "p", "l", "e", ".", "u", "s", "b">>,
      <<"c", "o", "m", ".", "x", ".", "H", "D", "A">>,
      <<"s", "u", "b", "t", "l", "e">>,
      <<"c", "o", "m", ".", "a", "m", "d", ".", "g", "f", "x">> }

\* datasets of n of the four bundles, in any order
PoolDatasets(n) ==
    {[i \in 1..n |-> [key |-> k[i], val |-> PoolRecord(k[i])]] :
         k \in {f \in [1..n -> PoolIds] : \A i, j \in 1..n : i # j => f[i] # f[j]}}

Digits == <<"1", "2", "3", "4", "5", "6", "7", "8", "9">>
\* the k-th version string and the k-th bundle id of a histogram dataset
Ver(k) == <<Digits[k], ".", "0">>
HistId(k) == <<"k", Digits[k]>>

\* the version field of a record, by number: 0 for a record without
\* version, 1 for "N/A", k + 1 for the k-th version string
VersionField(c) ==
    IF c = 0 THEN [has |-> FALSE]
    ELSE [has |-> TRUE, v |-> IF c = 1 THEN NA ELSE Ver(c - 1)]

\* the version fields of n records: none, "N/A", a version string already
\* used or the next unused one (analyze_kexts reads a version string only to
\* count it, so that the names of the version strings do not matter)
RECURSIVE VersionFields(_)
VersionFields(n) ==
    IF n = 0 THEN {<<>>}
    ELSE UNION {{Append(s, c) : c \in 0..(Cardinality(Range(s) \ {0, 1}) + 2)} :
                s \in VersionFields(n - 1)}

HistRecord(v) == IF v.has THEN [name |-> <<"K">>, version |-> v.v] ELSE [name |-> <<"K">>]

\* the dataset of records that differ in their version, for the fields s
HistDataset(s) ==
    [i \in 1..Len(s) |-> [key |-> HistId(i), val |-> HistRecord(VersionField(s[i]))]]

----------------------------------------------------------------------------
(* compare_kexts.py: compare_kext_datasets *)

InitCompareWith(Datasets) ==
    /\ Datasets
    /\ vmapple_analysis = NoAnalysis
    /\ host_analysis = NoAnalysis
    /\ bundle_cmp = NoCmp
    /\ pc = "analyze"
    /\ plist_files = <<>>
    /\ idx = 0
    /\ data = None
    /\ kexts = <<>>
    /\ nodes = <<>>
    /\ edges = <<>>
    /\ edges_added = {}
    /\ gidx = 0
    /\ script = "compare_kexts"
    /\ written = {}
    /\ stats = None
    /\ args = {}
    /\ data_files = {}
    /\ log = <<>>

\* vmapple_analysis = analyze_kexts(vmapple); host_analysis = analyze_kexts(host)
Analyze ==
    /\ pc = "analyze"
    /\ vmapple_analysis' = analyze_kexts(vmapple)
    /\ host_analysis' = analyze_kexts(host)
    /\ pc' = "bundles"
    /\ UNCHANGED <<vmapple, host, bundle_cmp>>
    /\ UNCHANGED runVars
    /\ UNCHANGED extractVars
    /\ UNCHANGED mainVars

\* the bundle id comparison
CompareBundles ==
    /\ pc = "bundles"
    /\ bundle_cmp' = BundleSets(vmapple, host)
    /\ pc' = "report"
    /\ UNCHANGED <<vmapple, host, vmapple_analysis, host_analysis>>
    /\ UNCHANGED runVars
    /\ UNCHANGED extractVars
    /\ UNCHANGED mainVars

\* the file generate_comparison_report writes
ReportFile == "comparison_report.md"

Max(a, b) == IF a >= b THEN a ELSE b

\* generate_comparison_report: the report text divides the number of common
\* ids by max(len(vmapple), len(host)), which raises ZeroDivisionError when
\* that is 0; otherwise comparison_report.md is written
Report ==
    /\ pc = "report"
    /\ IF Max(Len(vmapple), Len(host)) = 0
       THEN pc' = "raised" /\ written' = written
       ELSE pc' = "done" /\ written' = written \cup {ReportFile}
    /\ UNCHANGED <<script, stats>>
    /\ UNCHANGED compareVars
    /\ UNCHANGED extractVars
    /\ UNCHANGED mainVars

NextCompare ==
    \/ Analyze
    \/ CompareBundles
    \/ Report

\* two datasets of some of the four bundles, or one dataset of one record
InitCompare ==
    InitCompareWith(
        \/ vmapple \in OneRecordDatasets /\ host = <<>>
        \/ \E n, m \in 0..MaxRecs : vmapple \in PoolDatasets(n) /\ host \in PoolDatasets(m))

\* a dataset of records that differ in their version, and an empty one
InitVersions ==
    InitCompareWith(
        \E n \in 0..MaxHist :
            /\ \E s \in VersionFields(n) : vmapple = HistDataset(s)
            /\ host = <<>>)

SpecCompare == InitCompare /\ [][NextCompare]_vars

SpecVersions == InitVersions /\ [][NextCompare]_vars

----------------------------------------------------------------------------
(* Properties of the comparison *)

Analyzed == vmapple_analysis # NoAnalysis
Compared == bundle_cmp # NoCmp

\* C3: the three id sets are pairwise disjoint, their union is the union of
\* the keys of the two datasets, and common with each of the other two has
\* the size of the respective dataset.
C3_Partition ==
    Compared =>
        LET a == bundle_cmp.only_in_vmapple
            b == bundle_cmp.only_in_host
            c == bundle_cmp.common
        IN  /\ a \cap b = {} /\ a \cap c = {} /\ b \cap c = {}
            /\ a \cup b \cup c = Keys(vmapple) \cup Keys(host)
            /\ Cardinality(c) + Cardinality(a) = Len(vmapple)
            /\ Cardinality(c) + Cardinality(b) = Len(host)

\* two compared datasets that share a bundle and have each one of their own
C3_Witness ==
    /\ Compared
    /\ bundle_cmp.common # {}
    /\ bundle_cmp.only_in_vmapple # {}
    /\ bundle_cmp.only_in_host # {}

\* two compared datasets of which the first is empty and the second is not
C3_WitnessEmpty ==
    /\ Compared
    /\ vmapple = <<>>
    /\ host # <<>>

RECURSIVE SumOver(_, _)
SumOver(f, names) ==
    IF names = <<>> THEN 0 ELSE f[Head(names)] + SumOver(f, Tail(names))

EightCounters(analysis, d) ==
    /\ DOMAIN analysis.categories = Range(CategoryNames)
    /\ Cardinality(DOMAIN analysis.categories) = 8
    /\ \A c \in DOMAIN analysis.categories : analysis.categories[c] \in Nat
    /\ SumOver(analysis.categories, CategoryNames) = Len(d)
    /\ analysis.total = Len(d)
    /\ Len(d) = 1 =>
          \E c \in DOMAIN analysis.categories :
              /\ analysis.categories[c] = 1
              /\ \A o \in DOMAIN analysis.categories \ {c} : analysis.categories[o] = 0

\* C4: the tally of a dataset has the eight category keys and no other, and
\* its counts sum to the number of records; the tally of one record has one
\* counter at 1 and seven at 0.
C4_TotalExclusive ==
    Analyzed =>
        /\ EightCounters(vmapple_analysis, vmapple)
        /\ EightCounters(host_analysis, host)

\* the substring test without regard to case, character by character
InsideNoCase(word, text) ==
    \E i \in 0..(Len(text) - Len(word)) :
        \A j \in 1..Len(word) : LowerChar(text[i + j]) = word[j]

\* the seven rules, on the name and the bundle id of a record
RuleHolds(r, name, id) ==
    CASE r = 1 -> \E w \in {<<"g", "r", "a", "p", "h", "i", "c", "s">>, <<"m", "e", "t", "a", "l">>,
                           <<"g", "p", "u">>, <<"f", "r", "a", "m", "e", "b", "u", "f", "f", "e", "r">>} :
                      InsideNoCase(w, name)
      [] r = 2 -> InsideNoCase(<<"a", "u", "d", "i", "o">>, name) \/ InsideNoCase(<<"h", "d", "a">>, id)
      [] r = 3 -> InsideNoCase(<<"u", "s", "b">>, name) \/ InsideNoCase(<<"u", "s", "b">>, id)
      [] r = 4 -> InsideNoCase(<<"b", "l", "u", "e", "t", "o", "o", "t", "h">>, name) \/ InsideNoCase(<<"b", "t">>, id)
      [] r = 5 -> InsideNoCase(<<"a", "p", "p", "l", "e">>, id)
      [] r = 6 -> InsideNoCase(<<"i", "n", "t", "e", "l">>, name) \/ InsideNoCase(<<"i", "n", "t", "e", "l">>, id)
      [] r = 7 -> InsideNoCase(<<"a", "m", "d">>, name)
      [] OTHER -> TRUE

NameOf(item) == IF "name" \in DOMAIN item.val THEN item.val.name ELSE <<>>

\* the label of the first rule that holds of a record, "other" when none does
FirstRuleLabel(item) ==
    LET holding == {r \in 1..7 : RuleHolds(r, NameOf(item), item.key)}
    IN  IF holding = {} THEN "other"
        ELSE CategoryNames[CHOOSE r \in holding : \A q \in holding : r <= q]

\* the labels of the records of a dataset, in its order
RECURSIVE Labels(_)
Labels(d) == IF d = <<>> THEN <<>> ELSE <<FirstRuleLabel(Head(d))>> \o Labels(Tail(d))

CountsByFirstRule(analysis, d) ==
    LET labels == Labels(d)
    IN  \A c \in Range(CategoryNames) :
            analysis.categories[c] = Cardinality({i \in 1..Len(d) : labels[i] = c})

\* C5: every record is counted under the label of the first rule, in the
\* order graphics, audio, usb, bluetooth, apple_specific, intel, amd, that
\* holds of it without regard to case, and under other when none holds.
C5_FirstRuleWins ==
    Analyzed =>
        /\ CountsByFirstRule(vmapple_analysis, vmapple)
        /\ CountsByFirstRule(host_analysis, host)

\* one record for which the usb rule, the apple_specific rule and the intel
\* rule hold and no earlier rule does: it is counted as usb
C5_Witness ==
    /\ Analyzed
    /\ Len(vmapple) = 1
    /\ LET n == NameOf(vmapple[1])
           k == vmapple[1].key
       IN  /\ ~RuleHolds(1, n, k) /\ ~RuleHolds(2, n, k)
           /\ RuleHolds(3, n, k) /\ RuleHolds(5, n, k) /\ RuleHolds(6, n, k)
           /\ n # Lower(n) /\ k # Lower(k)
    /\ vmapple_analysis.categories["usb"] = 1

\* a tally of three records in more than one category, one of the records
\* being of a kind that two rules hold of
C4_Witness ==
    /\ Analyzed
    /\ Len(vmapple) = 3
    /\ Cardinality({c \in Range(CategoryNames) : vmapple_analysis.categories[c] > 0}) >= 2
    /\ \E i \in 1..Len(vmapple) :
          Cardinality({r \in 1..7 : RuleHolds(r, NameOf(vmapple[i]), vmapple[i].key)}) >= 2

\* the version a record is counted under
CountedVersion(item) == IF "version" \in DOMAIN item.val THEN item.val.version ELSE NA

\* the records of a dataset counted under the version v
WithVersion(d, v) == {i \in 1..Len(d) : CountedVersion(d[i]) = v}

First(S) == CHOOSE i \in S : \A j \in S : i <= j

Histogram(analysis, d) ==
    LET top == analysis.top_versions
        all == {CountedVersion(d[i]) : i \in 1..Len(d)}
        shown == {top[i].key : i \in 1..Len(top)}
    IN  /\ Len(top) <= 5
        /\ Len(top) = IF Cardinality(all) < 5 THEN Cardinality(all) ELSE 5
        /\ Cardinality(shown) = Len(top)
        /\ \A i \in 1..Len(top) :
              /\ top[i].key \in all
              /\ top[i].val = Cardinality(WithVersion(d, top[i].key))
        /\ \A i, j \in 1..Len(top) :
              i < j =>
                 /\ top[i].val >= top[j].val
                 /\ top[i].val = top[j].val =>
                       First(WithVersion(d, top[i].key)) < First(WithVersion(d, top[j].key))
        /\ \A v \in all \ shown :
              \A i \in 1..Len(top) : Cardinality(WithVersion(d, v)) <= top[i].val
        /\ analysis.unique_versions = Cardinality(all)

\* C10: the reported histogram counts the records of each version, the
\* records without version under "N/A"; it has at most 5 entries, by falling
\* count, entries of equal count in the order their versions first occur in
\* the dataset; no version left out has a higher count than one reported.
C10_TopVersions ==
    Analyzed =>
        /\ Histogram(vmapple_analysis, vmapple)
        /\ Histogram(host_analysis, host)

\* a histogram over six versions, one of them left out; records without
\* version and records with the version "N/A" are counted together; the
\* version reported first is not the one that occurs first
C10_Witness ==
    /\ Analyzed
    /\ Cardinality({CountedVersion(vmapple[i]) : i \in 1..Len(vmapple)}) = 6
    /\ Len(vmapple_analysis.top_versions) = 5
    /\ \E i, j \in 1..Len(vmapple) :
          /\ "version" \notin DOMAIN vmapple[i].val
          /\ "version" \in DOMAIN vmapple[j].val /\ vmapple[j].val.version = NA
    /\ vmapple_analysis.top_versions[1].key # CountedVersion(vmapple[1])

\* a histogram whose first two entries have the same count
C10_WitnessTie ==
    /\ Analyzed
    /\ Len(vmapple_analysis.top_versions) >= 3
    /\ vmapple_analysis.top_versions[1].val = vmapple_analysis.top_versions[2].val
    /\ vmapple_analysis.top_versions[2].val > vmapple_analysis.top_versions[3].val

----------------------------------------------------------------------------
(* The extraction and the comparison side by side *)

InitSuite == InitExtract \/ InitCompare

NextSuite == Next \/ NextCompare

SpecSuite == InitSuite /\ [][NextSuite]_vars

----------------------------------------------------------------------------
(* Properties of the entry points and of the copies *)

Raised == pc = "raised"

\* C15: a run of an extraction entry point whose scan stored no record does
\* not end with an exception and writes no file, whichever entry point runs.
C15_EmptyRunWritesNothing ==
    (script \in Scripts /\ ScanDone /\ kexts = <<>>) => (~Raised /\ written = {})

\* create_graphml has returned to the main of an extraction script
GraphReturned ==
    /\ script \in Scripts
    /\ pc \in {"graph", "saved", "raised"} \/ (pc = "exit" /\ written # {})

\* generate_statistics has run
StatsPrinted == script = "analyze_kexts" /\ pc = "exit" /\ written # {}

\* C16: the nodes and the sequence of labelled edges a script built are what
\* the create_graphml of the other extraction script makes of the same
\* dataset, and the category tally of analyze_kexts of compare_kexts.py is
\* the category tally of generate_statistics of analyze_kexts.py.
C16_CopiesAgree ==
    /\ GraphReturned =>
          LET other == IF script = "analyze_kexts"
                       THEN host_create_graphml(kexts)
                       ELSE create_graphml(kexts)
          IN  nodes = other.nodes /\ edges = other.edges
    /\ StatsPrinted => stats.categories = CategoryLoop(ZeroCategories, kexts)
    /\ Analyzed =>
          /\ vmapple_analysis.categories = generate_statistics(vmapple).categories
          /\ host_analysis.categories = generate_statistics(host).categories

\* the analyze_kexts.py run of a dataset of two records that name each other,
\* with its two edges and its tally
C16_Witness ==
    /\ StatsPrinted
    /\ stats.categories["other"] = 2
    /\ \E i, j \in 1..Len(edges) :
          /\ edges[i].from = edges[j].to
          /\ edges[i].to = edges[j].from
          /\ edges[i].from # edges[i].to

\* a comparison whose first dataset has a record in each of three categories
C16_WitnessTally ==
    /\ Analyzed
    /\ vmapple_analysis.categories["usb"] = 1
    /\ vmapple_analysis.categories["audio"] = 1
    /\ vmapple_analysis.categories["bluetooth"] = 1

----------------------------------------------------------------------------
(* Properties of the comparison as a whole *)

\* what analyze_kexts is to return for a dataset without records
ZeroAnalysis(a) ==
    /\ a.total = 0
    /\ a.total_libraries = 0
    /\ a.total_dependencies = 0
    /\ \A i \in 1..Len(CategoryNames) : a.categories[CategoryNames[i]] = 0
    /\ DOMAIN a.categories = Range(CategoryNames)
    /\ a.unique_versions = 0
    /\ a.top_versions = <<>>

\* an analysis of an empty dataset is all zeros and the id sets of two empty
\* datasets are empty
EmptyYieldsZeros ==
    /\ Analyzed =>
          /\ vmapple = <<>> => ZeroAnalysis(vmapple_analysis)
          /\ host = <<>> => ZeroAnalysis(host_analysis)
    /\ Compared =>
          /\ vmapple = <<>> => bundle_cmp.only_in_vmapple = {} /\ bundle_cmp.common = {}
          /\ host = <<>> => bundle_cmp.only_in_host = {} /\ bundle_cmp.common = {}

\* C13: compare_kext_datasets raises for no two datasets, empty ones
\* included, and an empty dataset yields zero totals, eight zero category
\* counts, no versions and empty id sets.
C13_NoErrorConditions ==
    script = "compare_kexts" => (~Raised /\ EmptyYieldsZeros)

----------------------------------------------------------------------------
(* main.py: run_script, check_data_files, main *)

Flags == {"all", "analyze", "compare", "visualize", "vmapple", "host", "check"}

VmapplePath == "vmapple_kext/kexts_data.json"
HostPath == "host_kext/kexts_data.json"

\* required_files of check_data_files
RequiredFiles == {VmapplePath, HostPath}

\* check_data_files: no required file is missing
check_data_files(files) == {f \in RequiredFiles : f \notin files} = {}

\* how the process of analyze_kexts.py ends: main returns when the scan
\* stored nothing, and after generate_statistics; an exception of
\* create_graphml, save_files or generate_statistics is not caught
AnalyzeProcess(empty, fault) ==
    IF empty THEN [cond |-> "zero_records", ends |-> "returns"]
    ELSE IF fault THEN [cond |-> "raised", ends |-> "raises"]
    ELSE [cond |-> "completed", ends |-> "returns"]

\* how the process of compare_kexts.py ends: main returns when one of its
\* two paths does not exist, and after compare_kext_datasets; an exception
\* of compare_kext_datasets is not caught
CompareProcess(files, fault) ==
    IF VmapplePath \notin files THEN [cond |-> "missing_file", ends |-> "returns"]
    ELSE IF HostPath \notin files THEN [cond |-> "missing_file", ends |-> "returns"]
    ELSE IF fault THEN [cond |-> "raised", ends |-> "raises"]
    ELSE [cond |-> "completed", ends |-> "returns"]

\* how the process of generate_visualizations.py ends
VisualizeProcess(fault) ==
    IF fault THEN [cond |-> "raised", ends |-> "raises"]
    ELSE [cond |-> "completed", ends |-> "returns"]

\* the exit status of a Python process
ReturnCode(ends) == IF ends = "returns" THEN 0 ELSE 1

\* run_script: subprocess.run(..., check=True) raises CalledProcessError for
\* a return code other than 0, and run_script returns False for it
run_script(child) == ReturnCode(child.ends) = 0

\* what main did about a step: it ran the script of the step, or it left the
\* step out because check_data_files() was False
RunEvent(step, child) ==
    [ev |-> "run", step |-> step, cond |-> child.cond, ok |-> run_script(child)]
SkipEvent(step) ==
    [ev |-> "skip", step |-> step, cond |-> "not_run", ok |-> FALSE]

\* --all, step 1: `if not run_script(...): return`
AllAfterAnalyze(ok) == IF ok THEN "m_all_compare" ELSE "m_return"

\* mutant: a failed comparison ends the pipeline as a failed extraction does
AllAfterCompare_Return(ev) ==
    IF ev.ev = "run" /\ ~ev.ok THEN "m_return" ELSE "m_all_visualize"

\* --all, step 2: a failed and a skipped comparison are printed and main
\* goes on
AllAfterCompare(ev) == "m_all_visualize"

InitMain ==
    /\ args \in SUBSET Flags
    /\ data_files \in SUBSET RequiredFiles
    /\ log = <<>>
    /\ pc = "m_start"
    /\ script = "main"
    /\ written = {}
    /\ stats = None
    /\ plist_files = <<>>
    /\ idx = 0
    /\ data = None
    /\ kexts = <<>>
    /\ nodes = <<>>
    /\ edges = <<>>
    /\ edges_added = {}
    /\ gidx = 0
    /\ vmapple = <<>>
    /\ host = <<>>
    /\ vmapple_analysis = NoAnalysis
    /\ host_analysis = NoAnalysis
    /\ bundle_cmp = NoCmp

MainIdle ==
    /\ UNCHANGED <<script, written, stats>>
    /\ UNCHANGED extractVars
    /\ UNCHANGED compareVars

\* no flag at all: print the help and return
MainHelp ==
    /\ pc = "m_start"
    /\ args = {}
    /\ pc' = "m_return"
    /\ UNCHANGED mainVars
    /\ MainIdle

\* --check: report on the data files and return
MainCheck ==
    /\ pc = "m_start"
    /\ "check" \in args
    /\ pc' = "m_return"
    /\ UNCHANGED mainVars
    /\ MainIdle

\* --all, step 1: run analyze_kexts.py
AllAnalyze ==
    /\ pc = "m_start"
    /\ "check" \notin args
    /\ "all" \in args
    /\ \E empty, fault \in BOOLEAN :
          LET e == RunEvent("extraction", AnalyzeProcess(empty, fault))
          IN  /\ log' = Append(log, e)
              /\ pc' = AllAfterAnalyze(e.ok)
    /\ UNCHANGED <<args, data_files>>
    /\ MainIdle

\* a step that needs the data files: `if check_data_files():` leads to the
\* run_script call, the else branch prints that the step is left out
GatedCheck(step, run_pc, next_pc) ==
    /\ IF check_data_files(data_files)
       THEN log' = log /\ pc' = run_pc
       ELSE log' = Append(log, SkipEvent(step)) /\ pc' = next_pc
    /\ UNCHANGED <<args, data_files>>
    /\ MainIdle

\* --all, step 2: `if check_data_files():`
AllCompareCheck ==
    /\ pc = "m_all_compare"
    /\ GatedCheck("comparison", "m_all_compare_run", AllAfterCompare(SkipEvent("comparison")))

\* --all, step 2: run compare_kexts.py, which looks for the files itself
AllCompareRun ==
    /\ pc = "m_all_compare_run"
    /\ \E fault \in BOOLEAN :
          LET e == RunEvent("comparison", CompareProcess(data_files, fault))
          IN  /\ log' = Append(log, e)
              /\ pc' = AllAfterCompare(e)
    /\ UNCHANGED <<args, data_files>>
    /\ MainIdle

\* --all, step 3: `if check_data_files():`
AllVisualizeCheck ==
    /\ pc = "m_all_visualize"
    /\ GatedCheck("visualization", "m_all_visualize_run", "m_return")

\* --all, step 3: run generate_visualizations.py
AllVisualizeRun ==
    /\ pc = "m_all_visualize_run"
    /\ \E fault \in BOOLEAN :
          log' = Append(log, RunEvent("visualization", VisualizeProcess(fault)))
    /\ pc' = "m_return"
    /\ UNCHANGED <<args, data_files>>
    /\ MainIdle

\* the single flags: `if args.analyze`
OneAnalyze ==
    /\ pc = "m_start"
    /\ args # {}
    /\ "check" \notin args
    /\ "all" \notin args
    /\ IF "analyze" \in args
       THEN \E empty, fault \in BOOLEAN :
               log' = Append(log, RunEvent("extraction", AnalyzeProcess(empty, fault)))
       ELSE log' = log
    /\ pc' = "m_compare"
    /\ UNCHANGED <<args, data_files>>
    /\ MainIdle

\* the single flags: `if args.compare: if check_data_files():`
OneCompareCheck ==
    /\ pc = "m_compare"
    /\ IF "compare" \in args
       THEN GatedCheck("comparison", "m_compare_run", "m_visualize")
       ELSE /\ pc' = "m_visualize"
            /\ UNCHANGED mainVars
            /\ MainIdle

\* the single flags: run compare_kexts.py
OneCompareRun ==
    /\ pc = "m_compare_run"
    /\ \E fault \in BOOLEAN :
          log' = Append(log, RunEvent("comparison", CompareProcess(data_files, fault)))
    /\ pc' = "m_visualize"
    /\ UNCHANGED <<args, data_files>>
    /\ MainIdle

\* the single flags: `if args.visualize: if check_data_files():`; the notes
\* for --vmapple and --host that follow run nothing
OneVisualizeCheck ==
    /\ pc = "m_visualize"
    /\ IF "visualize" \in args
       THEN GatedCheck("visualization", "m_visualize_run", "m_return")
       ELSE /\ pc' = "m_return"
            /\ UNCHANGED mainVars
            /\ MainIdle

\* the single flags: run generate_visualizations.py
OneVisualizeRun ==
    /\ pc = "m_visualize_run"
    /\ \E fault \in BOOLEAN :
          log' = Append(log, RunEvent("visualization", VisualizeProcess(fault)))
    /\ pc' = "m_return"
    /\ UNCHANGED <<args, data_files>>
    /\ MainIdle

\* another process makes or removes a required file while main runs
FilesChange ==
    /\ script = "main"
    /\ pc # "m_return"
    /\ \E f \in RequiredFiles :
          data_files' = IF f \in data_files THEN data_files \ {f} ELSE data_files \cup {f}
    /\ UNCHANGED <<args, log, pc>>
    /\ MainIdle

NextMain ==
    \/ MainHelp
    \/ MainCheck
    \/ AllAnalyze
    \/ AllCompareCheck
    \/ AllCompareRun
    \/ AllVisualizeCheck
    \/ AllVisualizeRun
    \/ OneAnalyze
    \/ OneCompareCheck
    \/ OneCompareRun
    \/ OneVisualizeCheck
    \/ OneVisualizeRun
    \/ FilesChange

SpecMain == InitMain /\ [][NextMain]_vars

----------------------------------------------------------------------------
(* Properties of main.py *)

StepNo(step) ==
    CASE step = "extraction" -> 1
      [] step = "comparison" -> 2
      [] step = "visualization" -> 3

\* main called run_script for the step
Started(step) == \E i \in 1..Len(log) : log[i].step = step /\ log[i].ev = "run"
\* run_script returned False for the step
Failed(step) ==
    \E i \in 1..Len(log) : log[i].step = step /\ log[i].ev = "run" /\ ~log[i].ok
\* main left the step out because the data files were not there
Skipped(step) == \E i \in 1..Len(log) : log[i].step = step /\ log[i].ev = "skip"
\* main came to the step: it ran its script or left it out for the data files
Reached(step) == Started(step) \/ Skipped(step)

\* the steps main came to are in the order extraction, comparison,
\* visualization, each once at most
InOrder == \A i, j \in 1..Len(log) : i < j => StepNo(log[i].step) < StepNo(log[j].step)

AllMode == script = "main" /\ "all" \in args /\ "check" \notin args
OneMode == script = "main" /\ args # {} /\ "all" \notin args /\ "check" \notin args
Returned == pc = "m_return"

\* the flag that asks for a step
FlagOf(step) ==
    CASE step = "extraction" -> "analyze"
      [] step = "comparison" -> "compare"
      [] step = "visualization" -> "visualize"

StepNames == {"extraction", "comparison", "visualization"}

\* what holds of --all and of the single flags whichever way "attempted" is
\* read: the order, a failed extraction ends --all, and with the single
\* flags main comes to every requested step whatever became of the others
PipelineOrder ==
    /\ InOrder
    /\ AllMode =>
          /\ Failed("extraction") => Len(log) = 1
          /\ (Reached("comparison") \/ Reached("visualization")) =>
                Started("extraction") /\ ~Failed("extraction")
    /\ (OneMode /\ Returned) =>
          \A step \in StepNames : Reached(step) <=> FlagOf(step) \in args
    /\ \A i \in 1..Len(log) : log[i].ev = "skip" => log[i].step # "extraction"

\* C11 as stated, "attempted" being a call of run_script: in --all the steps
\* run in order, once at most, a failed extraction starts nothing else, and
\* after a failed or a skipped comparison the visualization script is run.
C11_VisualizationStartedAnyway ==
    script = "main" =>
        /\ PipelineOrder
        /\ (AllMode /\ Returned /\ (Failed("comparison") \/ Skipped("comparison"))) =>
              Started("visualization")

\* C11, amended: in --all the steps run in order, once at most, and a failed
\* extraction starts nothing else; after a failed or a skipped comparison
\* main goes on to the visualization step, which like the comparison runs
\* its script only if check_data_files() is true then and is left out
\* otherwise; with the single flags main comes to every requested step.
C11_PipelineGoesOn ==
    script = "main" =>
        /\ PipelineOrder
        /\ (AllMode /\ Returned /\ ~Failed("extraction")) =>
              /\ Reached("comparison")
              /\ Reached("visualization")

\* --all has returned after a comparison for which run_script returned False
\* and a visualization whose script was run
C11_Witness ==
    AllMode /\ Returned /\ Failed("comparison") /\ Started("visualization")

\* --all has returned after leaving out the comparison and the visualization
C11_WitnessSkipped ==
    AllMode /\ Returned /\ Skipped("comparison") /\ Skipped("visualization")

\* --analyze --compare --visualize has returned after an extraction that
\* failed and a comparison and a visualization that were run
C11_WitnessFlags ==
    /\ OneMode /\ Returned
    /\ Failed("extraction") /\ Started("comparison") /\ Started("visualization")

\* the script of a step found nothing to work on: no record, or a data file
\* that is not there
StepError(e) == e.ev = "run" /\ e.cond \in {"zero_records", "missing_file"}

\* C12: when the extraction stores no record, or the comparison finds a
\* data file missing, run_script returns False for that step, and --all does
\* not go on after such an extraction.
C12_StepErrorsSurfaced ==
    script = "main" =>
        /\ \A i \in 1..Len(log) : StepError(log[i]) => ~log[i].ok
        /\ (AllMode /\ Len(log) >= 1 /\ StepError(log[1])) => Len(log) = 1

\* run_script has returned for an extraction that stored no record
C12_ZeroRecordsRun ==
    \E i \in 1..Len(log) : log[i].step = "extraction" /\ log[i].cond = "zero_records"

\* run_script has returned for a comparison that found a data file missing
C12_MissingFileRun ==
    \E i \in 1..Len(log) : log[i].step = "comparison" /\ log[i].cond = "missing_file"

====
